---- MODULE Spec2Model ----
(***************************************************************************)
(* A model of fastapi_user_auth: the request-scoped identity resolver      *)
(* (AuthBackend.authenticate), the requires(...) guard with its depend and *)
(* decorator wrappers, the credential verifier (Auth.authenticate_user),   *)
(* the login and registration form handlers, the OAuth2 token endpoint and  *)
(* the role seeding (Auth.create_role_user), over an identity store and a  *)
(* token store; authenticate and create_role_user are also modelled as     *)
(* coroutines that interleave at their awaits.                             *)
(*                                                                         *)
(* Python values are encoded as follows.  Optional[X] is a sequence of     *)
(* length 0 (None) or 1 (the value).  A string is a sequence of chunks; a  *)
(* chunk is either the space character " " or a maximal run of characters  *)
(* that holds no space ("Bearer", "t1"), so that str.partition(" ") and    *)
(* str.lower() are computed on the text and not assumed.                   *)
(***************************************************************************)
EXTENDS Integers, Sequences, FiniteSets, TLC

VARIABLES
    users,       \* identity table: username -> Optional[user row]
    links,       \* association tables: username -> role/group/permission keys
    tokenTable,  \* rows of the database-backed token store
    nextTok,     \* number of token strings generated so far, plus one
    adminOps,    \* number of administrative changes made so far
    jar,         \* the client's Authorization cookie: Optional[str]
    request,     \* the inbound connection: route, header, cookie, form
    scope,       \* request.scope: the 'auth' and 'user' entries
    pc,          \* position of the connection's single logical flow
    frame,       \* locals of the running coroutine
    hist,        \* per-connection observations: authenticate returns, store reads
    resp,        \* what the connection ended with
    roleTable,   \* role table: the keys that have a Role row
    boot,        \* create_role_user calls made so far: what each returned and created
    store,       \* a token store used on its own: its clock, the tokens issued, the
                 \* issued tokens destroy_token was called on, the last operation
    tasks        \* coroutines running concurrently: the position and locals of each

vars == <<users, links, tokenTable, nextTok, adminOps, jar, request, scope, pc, frame, hist, resp,
          roleTable, boot, store, tasks>>

auxVars == <<roleTable, boot, store, tasks>>

dbVars == <<users, links, tokenTable, nextTok, adminOps>>

(***************************************************************************)
(* Bounds and program constants                                            *)
(***************************************************************************)
MaxTokens == 2      \* token strings the store may generate
MaxAdminOps == 1    \* administrative changes to memberships and active flags
MaxSeedCalls == 3   \* calls of create_role_user
MaxClock == 3       \* ticks of the token store's clock
MaxJwt == 2         \* tokens the signed-stateless store issues
MaxTasks == 2       \* coroutines running concurrently

HTTP_403 == 403     \* requires(status_code=403)
HTTP_303 == 303     \* RedirectResponse(status_code=303)
HTTP_401 == 401     \* a status code a route configures instead of the default

None == <<>>
Some(x) == <<x>>
IsNone(o) == o = <<>>
The(o) == o[1]

Usernames == {"admin", "vip"}
RoleKeys == {"admin", "vip"}
GroupKeys == {"admin", "vip"}
PermKeys == {"test"}

(***************************************************************************)
(* Strings                                                                 *)
(***************************************************************************)
SP == " "

\* str.lower() on one chunk
LowerChunk(c) ==
    CASE c = "Bearer" -> "bearer"
      [] c = "BEARER" -> "bearer"
      [] c = "Basic" -> "basic"
      [] OTHER -> c

\* str.lower()
Lower(s) == [i \in DOMAIN s |-> LowerChunk(s[i])]

\* index of the first space of s, 0 when there is none
FirstSpace(s) ==
    IF \E i \in DOMAIN s : s[i] = SP
    THEN CHOOSE i \in DOMAIN s : s[i] = SP /\ \A j \in 1..(i - 1) : s[j] # SP
    ELSE 0

\* str.partition(" "): <<head, tail>>
Partition(s) ==
    LET i == FirstSpace(s) IN
    IF i = 0 THEN <<s, <<>>>>
    ELSE <<SubSeq(s, 1, i - 1), SubSeq(s, i + 1, Len(s))>>

\* truth value of an Optional[str]: None and "" are false
TruthyStr(o) == ~IsNone(o) /\ The(o) # <<>>

\* a or b, on Optional[str]
OrElse(a, b) == IF TruthyStr(a) THEN a ELSE b

\* fastapi.security.utils.get_authorization_scheme_param
get_authorization_scheme_param(authorization) ==
    IF ~TruthyStr(authorization) THEN <<<<>>, <<>>>>
    ELSE Partition(The(authorization))

\* AuthBackend.get_user_token: Optional[str]
get_user_token_cookie_first(req) ==
    LET authorization == OrElse(req.cookie, req.header)
        sp == get_authorization_scheme_param(authorization)
    IN  IF ~TruthyStr(authorization) \/ Lower(sp[1]) # <<"bearer">>
        THEN None
        ELSE Some(sp[2])

get_user_token_any_scheme(req) ==
    LET authorization == OrElse(req.header, req.cookie)
        sp == get_authorization_scheme_param(authorization)
    IN  IF ~TruthyStr(authorization)
        THEN None
        ELSE Some(sp[2])

get_user_token(req) ==
    LET authorization == OrElse(req.header, req.cookie)
        sp == get_authorization_scheme_param(authorization)
    IN  IF ~TruthyStr(authorization) \/ Lower(sp[1]) # <<"bearer">>
        THEN None
        ELSE Some(sp[2])

\* the value login, registration and gettoken give the Authorization cookie
BearerCookie(access_token) == <<"bearer", SP>> \o access_token

(***************************************************************************)
(* Password hashing (passlib CryptContext)                                 *)
(***************************************************************************)
pwd_hash(p) == <<"bcrypt", p>>
pwd_verify(p, h) == h = pwd_hash(p)

(***************************************************************************)
(* Identity store and token store                                          *)
(***************************************************************************)
UserRow(username, is_active) ==
    [username |-> username, password |-> pwd_hash(username),
     email |-> <<username, "@amis.work">>, is_active |-> is_active]

NoLinks == [roles |-> {}, groups |-> {}, permissions |-> {}]

\* Auth.get_user_by_username: the row stored under the username now
get_user_by_username(tbl, username) ==
    IF username \in DOMAIN tbl THEN tbl[username] ELSE None

\* the token string the store generates for its n-th token
Tok(n) == <<"t" \o ToString(n)>>

TokenStrings == {Tok(n) : n \in 1..MaxTokens}

\* a token string no store ever generated
Forged == <<"forged">>

\* BaseTokenStore.read_token, database-backed: absent for an unknown or an
\* expired token, never an exception
read_token(table, token) ==
    LET rows == {r \in table : r.token = token /\ ~r.expired} IN
    IF rows = {} THEN None ELSE Some((CHOOSE r \in rows : TRUE).data)

\* TokenDataSchema.parse_obj(user.dict()): the payload kept of an identity
TokenData(user) == [username |-> user.username]

\* BaseTokenStore.write_token, database-backed: the table with one more row
write_token(table, token, user) ==
    table \cup {[token |-> token, data |-> TokenData(user), expired |-> FALSE]}

\* BaseTokenStore.destroy_token, database-backed
destroy_token_expire(table, token) ==
    {IF r.token = token THEN [r EXCEPT !.expired = TRUE] ELSE r : r \in table}

destroy_token(table, token) == {r \in table : r.token # token}

\* BaseUser.has_role / has_group / has_permission: any-of over the identity's keys
Range(q) == {q[i] : i \in DOMAIN q}
has_role(lk, user, roles_list) == lk[user.username].roles \cap Range(roles_list) # {}
has_group(lk, user, groups_list) == lk[user.username].groups \cap Range(groups_list) # {}
has_permission(lk, user, permissions_list) ==
    lk[user.username].permissions \cap Range(permissions_list) # {}

(***************************************************************************)
(* requires(roles, groups, permissions, status_code, redirect, response)   *)
(***************************************************************************)
NoneArg == [t |-> "none", v |-> <<>>]
Str(s) == [t |-> "str", v |-> <<s>>]
List(q) == [t |-> "list", v |-> q]

\* truth value of a Union[str, Sequence[str]] = None argument
Truthy(arg) ==
    CASE arg.t = "none" -> FALSE
      [] arg.t = "str" -> arg.v[1] # ""
      [] OTHER -> arg.v # <<>>

\* [x] if isinstance(x, str) else list(x)
AsList(arg) == arg.v

\* has_requires, after the identity is resolved
has_requires_or(lk, user, route) ==
    IF IsNone(user) THEN FALSE
    ELSE \/ ~Truthy(route.groups) /\ ~Truthy(route.roles) /\ ~Truthy(route.permissions)
         \/ Truthy(route.groups) /\ has_group(lk, The(user), AsList(route.groups))
         \/ Truthy(route.roles) /\ has_role(lk, The(user), AsList(route.roles))
         \/ Truthy(route.permissions)
                /\ has_permission(lk, The(user), AsList(route.permissions))

has_requires_anonymous(lk, user, route) ==
    IF IsNone(user) THEN ~Truthy(route.groups) /\ ~Truthy(route.roles) /\ ~Truthy(route.permissions)
    ELSE IF Truthy(route.groups) /\ ~has_group(lk, The(user), AsList(route.groups)) THEN FALSE
    ELSE IF Truthy(route.roles) /\ ~has_role(lk, The(user), AsList(route.roles)) THEN FALSE
    ELSE IF Truthy(route.permissions)
            /\ ~has_permission(lk, The(user), AsList(route.permissions)) THEN FALSE
    ELSE TRUE

has_requires(lk, user, route) ==
    IF IsNone(user) THEN FALSE
    ELSE IF Truthy(route.groups) /\ ~has_group(lk, The(user), AsList(route.groups)) THEN FALSE
    ELSE IF Truthy(route.roles) /\ ~has_role(lk, The(user), AsList(route.roles)) THEN FALSE
    ELSE IF Truthy(route.permissions)
            /\ ~has_permission(lk, The(user), AsList(route.permissions)) THEN FALSE
    ELSE TRUE

\* what depend returns or raises
Outcome(kind, val, code) == [kind |-> kind, val |-> val, code |-> code]
PassOutcome == Outcome("return", "True", 0)

depend_response_first(ok, route) ==
    IF ~ok THEN
        IF ~IsNone(route.response) THEN Outcome("return", The(route.response), 0)
        ELSE IF ~IsNone(route.redirect) THEN Outcome("redirect", The(route.redirect), HTTP_303)
        ELSE Outcome("raise", "HTTPException", route.status_code)
    ELSE PassOutcome

depend(ok, route) ==
    IF ~ok THEN
        IF ~IsNone(route.redirect) THEN Outcome("redirect", The(route.redirect), HTTP_303)
        ELSE IF ~IsNone(route.response) THEN Outcome("return", The(route.response), 0)
        ELSE Outcome("raise", "HTTPException", route.status_code)
    ELSE PassOutcome

\* response is True
IsTrue(outcome) == outcome.kind = "return" /\ outcome.val = "True"

(***************************************************************************)
(* Routes of the application                                               *)
(***************************************************************************)
Route(name, kind, pre_auth, roles, groups, permissions, status_code, redirect, response) ==
    [name |-> name, kind |-> kind, pre_auth |-> pre_auth,
     roles |-> roles, groups |-> groups, permissions |-> permissions,
     status_code |-> status_code, redirect |-> redirect, response |-> response]

\* kinds of use of requires(...): the three decorator wrappers, a framework
\* dependency (decorator()), and a direct call on the request (decorator(request))
WrapperKinds == {"sync", "async", "websocket"}
GuardKinds == WrapperKinds \cup {"depend", "predicate"}
FormKinds == {"login", "gettoken"}

\* AuthRouter: /userinfo, behind the router's authenticate dependency
UserinfoRoute == Route("userinfo", "async", TRUE, NoneArg, NoneArg, NoneArg, HTTP_403, None, None)
\* AuthRouter: /gettoken
TokenRoute == Route("gettoken", "gettoken", TRUE, NoneArg, NoneArg, NoneArg, HTTP_403, None, None)
\* UserLoginFormAdmin: /login
LoginRoute == Route("login", "login", TRUE, NoneArg, NoneArg, NoneArg, HTTP_403, None, None)
\* UserAuthApp.has_page_permission
PageRoute == Route("page", "predicate", TRUE, Str("admin"), NoneArg, NoneArg, HTTP_403, None, Some("False"))
\* routes an application declares with auth.requires
AdminRolesRoute == Route("admin_roles", "sync", FALSE, Str("admin"), NoneArg, NoneArg, HTTP_403, None, None)
VipSocketRoute == Route("vip_socket", "websocket", FALSE, List(<<"vip">>), NoneArg, NoneArg, HTTP_403, None, None)

\* the forms a Union[str, Sequence[str]] = None argument takes over two keys
ArgForms(k1, k2) ==
    {NoneArg, Str(""), Str(k1), List(<<>>), List(<<k2>>), List(<<k1, k2>>)}

\* requires(roles, groups, permissions) in every form, on an async handler
RequirementRoutes ==
    {Route("requirement", "async", FALSE, r, g, p, HTTP_403, None, None) :
        r \in ArgForms("admin", "vip"), g \in ArgForms("admin", "vip"),
        p \in {NoneArg, Str("test"), List(<<>>), List(<<"test", "other">>)}}

\* requires(..., status_code, redirect, response) in every kind of use
PolicyRoutes ==
    {Route("policy", kind, FALSE, r, NoneArg, NoneArg, status_code, redirect, response) :
        kind \in GuardKinds, r \in {NoneArg, Str("admin")},
        status_code \in {HTTP_403, HTTP_401},
        redirect \in {None, Some("login")},
        response \in {None, Some("False"), Some("True"), Some("Response")}}

EmptyForm == [username |-> "", password |-> ""]
Forms == [username : Usernames, password : Usernames]

\* what a client may send as the Authorization header
BearerHeader(token) == <<"Bearer", SP>> \o token

(***************************************************************************)
(* Per-connection state                                                    *)
(***************************************************************************)
EmptyScope == [auth |-> None, user |-> None]
TheAuth == Some("auth")

NoCall == [kind |-> "none", user |-> None]
EmptyFrame == [ret |-> "endpoint", token |-> None, token_data |-> None,
               user |-> None, verified |-> NoCall, inserted |-> "none"]
NoReads == [token |-> 0, user |-> 0]
EmptyHist == [rets |-> <<>>, reads |-> NoReads, first |-> NoReads]
NoResp == [kind |-> "none", val |-> "", code |-> None, status |-> 0, ran |-> FALSE,
           guard |-> None, outcome |-> Outcome("none", "", 0), data |-> None,
           access_token |-> None, set_cookie |-> None]
NoRequest == [route |-> UserinfoRoute, header |-> None, cookie |-> None, form |-> EmptyForm]

\* no direct use of a token store so far
NoStore ==
    [now |-> 0, issued |-> {}, destroyed |-> {},
     last |-> [op |-> "none", token |-> <<>>, result |-> "none", value |-> None, at |-> 0]]

\* the application's roles have their rows; nothing was seeded or used directly
NoAux ==
    /\ roleTable = RoleKeys
    /\ boot = <<>>
    /\ store = NoStore
    /\ tasks = <<>>

BothUsers == [u \in Usernames |-> Some(UserRow(u, TRUE))]

InitUsers ==
    {[u \in Usernames |-> IF u = "admin" THEN Some(UserRow(u, TRUE)) ELSE v] :
        v \in {None, Some(UserRow("vip", TRUE)), Some(UserRow("vip", FALSE))}}

VipLinks == [roles |-> {"vip"}, groups |-> {"vip"}, permissions |-> {}]

InitLinks ==
    [u \in Usernames |->
        IF u = "admin" THEN [roles |-> {"admin"}, groups |-> {"admin"}, permissions |-> {}]
        ELSE VipLinks]

\* every membership the identity admin may hold
AllLinks ==
    {[u \in Usernames |-> IF u = "admin" THEN l ELSE VipLinks] :
        l \in [roles : SUBSET RoleKeys, groups : SUBSET GroupKeys, permissions : SUBSET PermKeys]}

\* a token table after admin and vip each logged in once
IssuedTokens == write_token(write_token({}, Tok(1), UserRow("admin", TRUE)),
                            Tok(2), UserRow("vip", TRUE))
IssuedHeaders == {None, Some(BearerHeader(Tok(1))), Some(BearerHeader(Tok(2)))}

\* where a connection starts: the router's dependencies run before the endpoint
StartPc(route) == IF route.pre_auth THEN "auth_enter" ELSE "endpoint"

ConnInit(req) ==
    /\ request = req
    /\ scope = EmptyScope
    /\ pc = StartPc(req.route)
    /\ frame = EmptyFrame
    /\ hist = EmptyHist
    /\ resp = NoResp

Idle ==
    /\ request = NoRequest
    /\ scope = EmptyScope
    /\ pc = "idle"
    /\ frame = EmptyFrame
    /\ hist = EmptyHist
    /\ resp = NoResp

Init ==
    /\ users \in InitUsers
    /\ links = InitLinks
    /\ tokenTable = {}
    /\ nextTok = 1
    /\ adminOps = 0
    /\ jar = None
    /\ NoAux
    /\ Idle

\* a connection arrives; the framework runs the router's dependencies first
NewRequestFrom(routes, headers) ==
    /\ pc \in {"idle", "done"}
    /\ \E route \in routes, cookie \in {None, jar} :
       \E header \in IF route.kind \in FormKinds THEN {None} ELSE headers :
       \E form \in IF route.kind \in FormKinds THEN Forms ELSE {EmptyForm} :
          /\ route.kind \in FormKinds => nextTok <= MaxTokens
          /\ request' = [route |-> route, header |-> header, cookie |-> cookie, form |-> form]
          /\ pc' = StartPc(route)
    /\ scope' = EmptyScope
    /\ hist' = EmptyHist
    /\ resp' = NoResp
    /\ frame' = EmptyFrame
    /\ UNCHANGED <<auxVars, dbVars, jar>>

\* the endpoint starts: a guarded one resolves the identity first (has_requires)
Dispatch ==
    /\ pc = "endpoint"
    /\ IF request.route.kind \in GuardKinds
       THEN /\ pc' = "auth_enter"
            /\ frame' = [frame EXCEPT !.ret = "guard"]
       ELSE /\ pc' = request.route.kind
            /\ frame' = frame
    /\ UNCHANGED <<auxVars, dbVars, jar, request, scope, hist, resp>>

(***************************************************************************)
(* AuthBackend.authenticate                                                *)
(***************************************************************************)
\* the call returns value to its caller
Returned(h, value) ==
    [h EXCEPT !.rets = Append(@, value),
              !.first = IF h.rets = <<>> THEN h.reads ELSE @]

\* the scope's cached result counts when scope.get('auth') is true
AuthEnter_no_cache ==
    /\ pc = "auth_enter"
    /\ LET token == get_user_token(request) IN
          /\ scope' = [auth |-> TheAuth, user |-> None]
          /\ frame' = [frame EXCEPT !.token = token]
          /\ IF ~TruthyStr(token)
             THEN /\ hist' = Returned(hist, <<TheAuth, None>>)
                  /\ pc' = frame.ret
             ELSE /\ hist' = hist
                  /\ pc' = "auth_read"
    /\ UNCHANGED <<auxVars, dbVars, jar, request, resp>>

AuthEnter ==
    /\ pc = "auth_enter"
    /\ IF ~IsNone(scope.auth)
       THEN /\ hist' = Returned(hist, <<scope.auth, scope.user>>)
            /\ pc' = frame.ret
            /\ UNCHANGED <<scope, frame>>
       ELSE LET token == get_user_token(request) IN
            /\ scope' = [auth |-> TheAuth, user |-> None]
            /\ frame' = [frame EXCEPT !.token = token]
            /\ IF ~TruthyStr(token)
               THEN /\ hist' = Returned(hist, <<TheAuth, None>>)
                    /\ pc' = frame.ret
               ELSE /\ hist' = hist
                    /\ pc' = "auth_read"
    /\ UNCHANGED <<auxVars, dbVars, jar, request, resp>>

\* token_data = await self.token_store.read_token(token)
AuthRead ==
    /\ pc = "auth_read"
    /\ LET token_data == read_token(tokenTable, The(frame.token)) IN
          /\ frame' = [frame EXCEPT !.token_data = token_data]
          /\ IF IsNone(token_data)
             THEN /\ hist' = Returned([hist EXCEPT !.reads.token = @ + 1],
                                      <<scope.auth, scope.user>>)
                  /\ pc' = frame.ret
             ELSE /\ hist' = [hist EXCEPT !.reads.token = @ + 1]
                  /\ pc' = "auth_user"
    /\ UNCHANGED <<auxVars, dbVars, jar, request, scope, resp>>

\* the identity a token payload resolves to
resolve_identity_stale(tbl, token_data) == Some(token_data)

resolve_identity(tbl, token_data) == get_user_by_username(tbl, token_data.username)

\* request.scope["user"] = await self.auth.get_user_by_username(token_data.username)
AuthUser ==
    /\ pc = "auth_user"
    /\ scope' = [scope EXCEPT !.user = resolve_identity(users, The(frame.token_data))]
    /\ hist' = Returned([hist EXCEPT !.reads.user = @ + 1], <<scope'.auth, scope'.user>>)
    /\ pc' = frame.ret
    /\ UNCHANGED <<auxVars, dbVars, jar, request, frame, resp>>

(***************************************************************************)
(* requires: has_requires, depend and the decorator's wrappers             *)
(***************************************************************************)
\* what the connection ends with once depend has returned or raised
Rejection(outcome) ==
    IF outcome.kind = "raise" THEN "http_error"
    ELSE IF outcome.kind = "redirect" THEN "redirect"
    ELSE "response"

\* truth value of what depend returned (a response object is true)
TruthyOutcome(outcome) == outcome.kind # "raise" /\ outcome.val # "False"

\* whether the handler body executes, by kind of use
Runs_websocket_by_policy(kind, ok, outcome) ==
    CASE kind \in {"sync", "async", "websocket"} -> IsTrue(outcome)
      [] kind = "depend" -> outcome.kind # "raise"
      [] OTHER -> TruthyOutcome(outcome)

Runs(kind, ok, outcome) ==
    CASE kind = "websocket" -> ok
      [] kind \in {"sync", "async"} -> IsTrue(outcome)
      [] kind = "depend" -> outcome.kind # "raise"
      [] OTHER -> TruthyOutcome(outcome)

\* what the connection ends with after the guard ran for the identity user
GuardResponse(r, lk, user, route) ==
    LET ok == has_requires(lk, user, route)
        outcome == depend(ok, route)
        ran == Runs(route.kind, ok, outcome)
    IN [r EXCEPT
            !.guard = Some(ok),
            !.outcome = IF route.kind = "websocket" THEN @ ELSE outcome,
            !.ran = ran,
            !.kind = IF ran THEN "handler"
                     ELSE IF route.kind = "websocket" THEN "closed"
                     ELSE IF route.kind = "predicate" /\ outcome.kind # "raise" THEN "denied"
                     ELSE Rejection(outcome),
            !.val = IF ran \/ route.kind = "websocket" THEN "" ELSE outcome.val,
            !.code = IF ran \/ route.kind = "websocket" THEN None ELSE Some(outcome.code),
            !.data = IF ran THEN user ELSE None]

Guard ==
    /\ pc = "guard"
    /\ resp' = GuardResponse(resp, links, scope.user, request.route)
    /\ pc' = "done"
    /\ UNCHANGED <<auxVars, dbVars, jar, request, scope, frame, hist>>

(***************************************************************************)
(* Auth.authenticate_user                                                  *)
(***************************************************************************)
Raised == [kind |-> "raise", user |-> None]
Result(user) == [kind |-> "return", user |-> user]

authenticate_user(tbl, username, password) ==
    LET user == get_user_by_username(tbl, username) IN
    \* pwd2 = user.password...: an AttributeError when user is None
    IF IsNone(user) THEN Raised
    ELSE IF pwd_verify(password, The(user).password) THEN Result(user)
    ELSE Result(None)

(***************************************************************************)
(* UserLoginFormAdmin.handle and route_submit                              *)
(***************************************************************************)
Envelope(status, code, data) ==
    [NoResp EXCEPT !.kind = "envelope", !.status = status, !.code = code, !.data = data]
ServerError == [NoResp EXCEPT !.kind = "server_error"]

LoginHandle_no_active_check ==
    /\ pc = "login"
    /\ IF ~IsNone(scope.user)
       THEN /\ resp' = Envelope(0, Some(1), scope.user)
            /\ pc' = "done"
            /\ frame' = frame
       ELSE LET r == authenticate_user(users, request.form.username, request.form.password) IN
            /\ frame' = [frame EXCEPT !.verified = r,
                                      !.user = IF r.kind = "return" THEN r.user ELSE None]
            /\ IF r.kind = "raise"
               THEN /\ resp' = ServerError
                    /\ pc' = "done"
               ELSE IF IsNone(r.user)
               THEN /\ resp' = Envelope(-1, None, None)
                    /\ pc' = "done"
               ELSE /\ resp' = resp
                    /\ pc' = "login_issue"
    /\ UNCHANGED <<auxVars, dbVars, jar, request, scope, hist>>

LoginHandle ==
    /\ pc = "login"
    /\ IF ~IsNone(scope.user)
       THEN /\ resp' = Envelope(0, Some(1), scope.user)
            /\ pc' = "done"
            /\ frame' = frame
       ELSE LET r == authenticate_user(users, request.form.username, request.form.password) IN
            /\ frame' = [frame EXCEPT !.verified = r,
                                      !.user = IF r.kind = "return" THEN r.user ELSE None]
            /\ IF r.kind = "raise"
               THEN /\ resp' = ServerError
                    /\ pc' = "done"
               ELSE IF IsNone(r.user)
               THEN /\ resp' = Envelope(-1, None, None)
                    /\ pc' = "done"
               ELSE IF ~The(r.user).is_active
               THEN /\ resp' = Envelope(-2, None, None)
                    /\ pc' = "done"
               ELSE /\ resp' = resp
                    /\ pc' = "login_issue"
    /\ UNCHANGED <<auxVars, dbVars, jar, request, scope, hist>>

\* route_submit: the cookie is set when result.status == 0 and result.code == 0
SubmitCookie_bare(result) ==
    IF result.status = 0 /\ result.code = Some(0)
    THEN Some(The(result.access_token))
    ELSE None

SubmitCookie(result) ==
    IF result.status = 0 /\ result.code = Some(0)
    THEN Some(BearerCookie(The(result.access_token)))
    ELSE None

\* token_info.access_token = await auth.backend.token_store.write_token(user.dict())
LoginIssue ==
    /\ pc = "login_issue"
    /\ LET token == Tok(nextTok)
           result == [Envelope(0, Some(0), frame.user) EXCEPT !.access_token = Some(token)]
           cookie == SubmitCookie(result)
       IN /\ tokenTable' = write_token(tokenTable, token, The(frame.user))
          /\ nextTok' = nextTok + 1
          /\ resp' = [result EXCEPT !.set_cookie = cookie]
          /\ jar' = IF IsNone(cookie) THEN jar ELSE cookie
    /\ pc' = "done"
    /\ UNCHANGED <<auxVars, users, links, adminOps, request, scope, frame, hist>>

(***************************************************************************)
(* AuthRouter.router_token                                                 *)
(***************************************************************************)
OAuthToken ==
    /\ pc = "gettoken"
    /\ LET r == IF IsNone(scope.user)
                THEN authenticate_user(users, request.form.username, request.form.password)
                ELSE NoCall
       IN /\ frame' = [frame EXCEPT !.verified = r]
          /\ IF r.kind = "raise"
             THEN /\ resp' = ServerError
                  /\ pc' = "done"
                  /\ scope' = scope
             ELSE /\ scope' = IF r.kind = "return" THEN [scope EXCEPT !.user = r.user] ELSE scope
                  /\ IF IsNone(scope'.user)
                     THEN /\ resp' = Envelope(-1, None, None)
                          /\ pc' = "done"
                     ELSE /\ resp' = resp
                          /\ pc' = "token_issue"
    /\ UNCHANGED <<auxVars, dbVars, jar, request, hist>>

TokenIssue ==
    /\ pc = "token_issue"
    /\ LET token == Tok(nextTok)
           cookie == Some(BearerCookie(token))
       IN /\ tokenTable' = write_token(tokenTable, token, The(scope.user))
          /\ nextTok' = nextTok + 1
          /\ resp' = [Envelope(0, None, scope.user) EXCEPT
                        !.access_token = Some(token), !.set_cookie = cookie]
          /\ jar' = cookie
    /\ pc' = "done"
    /\ UNCHANGED <<auxVars, users, links, adminOps, request, scope, frame, hist>>

(***************************************************************************)
(* UserRegFormAdmin.handle and route_submit                                *)
(***************************************************************************)
\* UserRegFormAdmin: /reg
RegRoute == Route("reg", "reg", TRUE, NoneArg, NoneArg, NoneArg, HTTP_403, None, None)

RegForms == [username : Usernames, password : Usernames, email : {<<u, "@amis.work">> : u \in Usernames}]

\* Auth.get_user_by_whereclause(user_model.email == email)
get_user_by_whereclause(tbl, email) ==
    LET hits == {u \in DOMAIN tbl : ~IsNone(tbl[u]) /\ The(tbl[u]).email = email} IN
    IF hits = {} THEN None ELSE tbl[CHOOSE u \in hits : TRUE]

\* the status of the uniqueness checks: 0 when both pass
reg_precheck_email_first(tbl, data) ==
    IF ~IsNone(get_user_by_whereclause(tbl, data.email)) THEN -2
    ELSE IF ~IsNone(get_user_by_username(tbl, data.username)) THEN -1
    ELSE 0

reg_precheck(tbl, data) ==
    IF ~IsNone(get_user_by_username(tbl, data.username)) THEN -1
    ELSE IF ~IsNone(get_user_by_whereclause(tbl, data.email)) THEN -2
    ELSE 0

\* values of the insert: the submitted fields, the password replaced by its hash
reg_values_plain(data) ==
    [username |-> data.username, password |-> <<"plain", data.password>>,
     email |-> data.email, is_active |-> TRUE]

reg_values(data) ==
    [username |-> data.username, password |-> pwd_hash(data.password),
     email |-> data.email, is_active |-> TRUE]

RegHandle ==
    /\ pc = "reg"
    /\ LET status == reg_precheck(users, request.form) IN
       IF status # 0
       THEN /\ resp' = Envelope(status, None, None)
            /\ pc' = "done"
            /\ frame' = frame
       ELSE /\ resp' = resp
            /\ pc' = "reg_insert"
            /\ frame' = [frame EXCEPT !.user = Some(reg_values(request.form))]
    /\ UNCHANGED <<auxVars, dbVars, jar, request, scope, hist>>

\* what session.execute(insert) may do: store the row (rowcount 1, committed),
\* raise, or report no row (nothing committed)
InsertOutcomes == {"committed", "raise", "norow"}

\* the try block: execute, commit when result.rowcount, HTTPException(500) on error
RegInsert ==
    /\ pc = "reg_insert"
    /\ \E outcome \in InsertOutcomes :
          /\ outcome = "committed" => IsNone(users[request.form.username])
          /\ frame' = [frame EXCEPT !.inserted = outcome]
          /\ IF outcome = "committed"
             THEN /\ users' = [users EXCEPT ![request.form.username] = frame.user]
                  /\ links' = [links EXCEPT ![request.form.username] = NoLinks]
             ELSE UNCHANGED <<users, links>>
          /\ IF outcome = "raise"
             THEN /\ resp' = ServerError
                  /\ pc' = "done"
             ELSE /\ resp' = resp
                  /\ pc' = "reg_issue"
    /\ UNCHANGED <<auxVars, tokenTable, nextTok, adminOps, jar, request, scope, hist>>

\* route_submit of the registration form
RegSubmitCookie(result) ==
    IF result.status = 0 /\ result.code = Some(0)
    THEN Some(BearerCookie(The(result.access_token)))
    ELSE None

\* write_token(user.dict()), the success envelope, then route_submit
RegIssue ==
    /\ pc = "reg_issue"
    /\ LET token == Tok(nextTok)
           result == [Envelope(0, Some(0), frame.user) EXCEPT !.access_token = Some(token)]
           cookie == RegSubmitCookie(result)
       IN /\ tokenTable' = write_token(tokenTable, token, The(frame.user))
          /\ nextTok' = nextTok + 1
          /\ resp' = [result EXCEPT !.set_cookie = cookie]
          /\ jar' = IF IsNone(cookie) THEN jar ELSE cookie
    /\ pc' = "done"
    /\ UNCHANGED <<auxVars, users, links, adminOps, request, scope, frame, hist>>

(***************************************************************************)
(* Auth.create_role_user                                                   *)
(***************************************************************************)
\* the identity rows in primary-key order
UserOrder == <<"admin", "vip">>

\* session.scalar(select(User).join(UserRoleLink).where(role_id == role.id)):
\* the first identity that holds the role, None when there is none
first_user_with_role(tbl, lk, role_key) ==
    LET held == {i \in DOMAIN UserOrder :
                    /\ ~IsNone(tbl[UserOrder[i]])
                    /\ role_key \in lk[UserOrder[i]].roles}
    IN  IF held = {} THEN None
        ELSE tbl[UserOrder[CHOOSE i \in held : \A j \in held : i <= j]]

\* roles=[role] of the identity the seeding creates
seed_roles_none(role_key) == {}

seed_roles(role_key) == {role_key}

NoneMade == [roles |-> 0, users |-> 0, links |-> 0]

\* one call, from the role lookup to the return; creating an identity whose
\* username is taken raises (unique username) after the role was committed
CreateRoleUser ==
    /\ Len(boot) < MaxSeedCalls
    /\ \E role_key \in RoleKeys :
          LET new_role == role_key \notin roleTable
              user == IF new_role THEN None ELSE first_user_with_role(users, links, role_key)
              made_role == IF new_role THEN 1 ELSE 0
              call(kind, u, made) == [role_key |-> role_key, kind |-> kind, user |-> u,
                                      made |-> [made EXCEPT !.roles = made_role]]
          IN /\ roleTable' = roleTable \cup {role_key}
             /\ IF ~IsNone(user)
                THEN /\ boot' = Append(boot, call("return", user, NoneMade))
                     /\ UNCHANGED <<users, links>>
                ELSE IF ~IsNone(users[role_key])
                THEN /\ boot' = Append(boot, call("raise", None, NoneMade))
                     /\ UNCHANGED <<users, links>>
                ELSE /\ users' = [users EXCEPT ![role_key] = Some(UserRow(role_key, TRUE))]
                     /\ links' = [links EXCEPT ![role_key] =
                                     [NoLinks EXCEPT !.roles = seed_roles(role_key)]]
                     /\ boot' = Append(boot, call("return", users'[role_key],
                                  [NoneMade EXCEPT !.users = 1,
                                                   !.links = Cardinality(links'[role_key].roles)]))
    /\ UNCHANGED <<tasks, store, tokenTable, nextTok, adminOps, jar, request, scope, pc, frame, hist, resp>>

(***************************************************************************)
(* The environment: administration of identities, the token store's clock  *)
(***************************************************************************)
connVars == <<jar, request, scope, pc, frame, hist, resp>>

SetLinks(u, dim, keys) ==
    /\ adminOps < MaxAdminOps
    /\ ~IsNone(users[u])
    /\ links[u][dim] # keys
    /\ links' = [links EXCEPT ![u][dim] = keys]
    /\ adminOps' = adminOps + 1
    /\ UNCHANGED <<auxVars, users, tokenTable, nextTok, connVars>>

\* a role, group or permission is granted to an identity
Grant ==
    \E u \in Usernames :
       \/ \E k \in RoleKeys : SetLinks(u, "roles", links[u].roles \cup {k})
       \/ \E k \in GroupKeys : SetLinks(u, "groups", links[u].groups \cup {k})
       \/ \E k \in PermKeys : SetLinks(u, "permissions", links[u].permissions \cup {k})

\* a role, group or permission is revoked from an identity
Revoke ==
    \E u \in Usernames :
       \/ \E k \in RoleKeys : SetLinks(u, "roles", links[u].roles \ {k})
       \/ \E k \in GroupKeys : SetLinks(u, "groups", links[u].groups \ {k})
       \/ \E k \in PermKeys : SetLinks(u, "permissions", links[u].permissions \ {k})

\* an identity is disabled or enabled again
SetActive ==
    /\ \E u \in Usernames :
          /\ ~IsNone(users[u])
          /\ users' = [users EXCEPT ![u] = Some([The(@) EXCEPT !.is_active = ~@])]
    /\ UNCHANGED <<auxVars, links, tokenTable, nextTok, adminOps, connVars>>

\* an identity is disabled or enabled again, as one of the counted changes
SetActiveCounted ==
    /\ adminOps < MaxAdminOps
    /\ \E u \in Usernames :
          /\ ~IsNone(users[u])
          /\ users' = [users EXCEPT ![u] = Some([The(@) EXCEPT !.is_active = ~@])]
    /\ adminOps' = adminOps + 1
    /\ UNCHANGED <<auxVars, links, tokenTable, nextTok, connVars>>

\* an identity is deleted, with its associations (UserAdmin)
DeleteUser ==
    /\ adminOps < MaxAdminOps
    /\ \E u \in Usernames :
          /\ ~IsNone(users[u])
          /\ users' = [users EXCEPT ![u] = None]
          /\ links' = [links EXCEPT ![u] = NoLinks]
    /\ adminOps' = adminOps + 1
    /\ UNCHANGED <<auxVars, tokenTable, nextTok, connVars>>

\* a token's lifetime ends
ExpireToken ==
    /\ \E r \in tokenTable :
          /\ ~r.expired
          /\ tokenTable' = (tokenTable \ {r}) \cup {[r EXCEPT !.expired = TRUE]}
    /\ UNCHANGED <<auxVars, users, links, nextTok, adminOps, connVars>>

\* destroy_token is called on a token string, issued or not
DestroyTokenIn(tokens) ==
    /\ \E t \in tokens : tokenTable' = destroy_token(tokenTable, t)
    /\ UNCHANGED <<auxVars, users, links, nextTok, adminOps, connVars>>

(***************************************************************************)
(* Spec: the authentication application.  Clients log in, fetch tokens and *)
(* call /userinfo, with the cookie they were given or a bearer header;     *)
(* identities are disabled and enabled and tokens destroyed meanwhile.     *)
(***************************************************************************)
AppRoutes == {UserinfoRoute, TokenRoute, LoginRoute}
AppHeaders == {None} \cup {Some(BearerHeader(t)) : t \in TokenStrings}

NewRequest == NewRequestFrom(AppRoutes, AppHeaders)
DestroyToken == DestroyTokenIn(TokenStrings)

Next ==
    \/ NewRequest
    \/ Dispatch
    \/ AuthEnter
    \/ AuthRead
    \/ AuthUser
    \/ Guard
    \/ LoginHandle
    \/ LoginIssue
    \/ OAuthToken
    \/ TokenIssue
    \/ SetActive
    \/ DestroyToken

Spec == Init /\ [][Next]_vars

(***************************************************************************)
(* SpecLogin: clients that only use the login form and /userinfo, so every *)
(* token in the store was written by the login handler.                    *)
(***************************************************************************)
LoginRoutes == {UserinfoRoute, LoginRoute}

NewRequestLogin == NewRequestFrom(LoginRoutes, AppHeaders)

NextLogin ==
    \/ NewRequestLogin
    \/ Dispatch
    \/ AuthEnter
    \/ AuthRead
    \/ AuthUser
    \/ Guard
    \/ LoginHandle
    \/ LoginIssue
    \/ SetActive
    \/ DestroyToken

SpecLogin == Init /\ [][NextLogin]_vars

(***************************************************************************)
(* SpecReg: clients that register and then call /userinfo with the cookie  *)
(* they were given.                                                        *)
(***************************************************************************)
NewRequestReg ==
    /\ pc \in {"idle", "done"}
    /\ \E route \in {RegRoute, UserinfoRoute}, cookie \in {None, jar} :
       \E form \in IF route = RegRoute THEN RegForms ELSE {EmptyForm} :
          /\ route = RegRoute => nextTok <= MaxTokens
          /\ request' = [route |-> route, header |-> None, cookie |-> cookie, form |-> form]
          /\ pc' = StartPc(route)
    /\ scope' = EmptyScope
    /\ hist' = EmptyHist
    /\ resp' = NoResp
    /\ frame' = EmptyFrame
    /\ UNCHANGED <<auxVars, dbVars, jar>>

NextReg ==
    \/ NewRequestReg
    \/ Dispatch
    \/ AuthEnter
    \/ AuthRead
    \/ AuthUser
    \/ Guard
    \/ RegHandle
    \/ RegInsert
    \/ RegIssue

SpecReg == Init /\ [][NextReg]_vars

(***************************************************************************)
(* SpecSeed: create_role_user called again and again at start-up, over any *)
(* store in which every role an identity holds has its row.                *)
(***************************************************************************)
SeedUsers == [Usernames -> {None}] \cup
             {[u \in Usernames |-> IF u \in present THEN Some(UserRow(u, TRUE)) ELSE None] :
                 present \in SUBSET Usernames}

InitSeed ==
    /\ users \in SeedUsers
    /\ roleTable \in SUBSET RoleKeys
    /\ links \in [Usernames -> {[NoLinks EXCEPT !.roles = held] : held \in SUBSET roleTable}]
    /\ \A u \in Usernames : IsNone(users[u]) => links[u] = NoLinks
    /\ boot = <<>>
    /\ store = NoStore
    /\ tasks = <<>>
    /\ tokenTable = {}
    /\ nextTok = 1
    /\ adminOps = 0
    /\ jar = None
    /\ Idle

NextSeed == CreateRoleUser

SpecSeed == InitSeed /\ [][NextSeed]_vars

(***************************************************************************)
(* SpecSeedRace: create_role_user called by several coroutines at once     *)
(* (application instances starting together), each in its own session.     *)
(* Each action is one awaited database round trip with the code after it;  *)
(* a statement sees what the other sessions have committed.                *)
(***************************************************************************)
\* a call of create_role_user(role_key) that has not started
NewSeedTask(role_key) ==
    [pc |-> "select_role", role_key |-> role_key, kind |-> "none", user |-> None,
     made |-> NoneMade]

\* role = await session.scalar(select(Role).where(Role.key == role_key)); if not role
SeedSelectRole(i) ==
    /\ tasks[i].pc = "select_role"
    /\ tasks' = [tasks EXCEPT ![i].pc =
                    IF tasks[i].role_key \in roleTable THEN "select_user" ELSE "insert_role"]
    /\ UNCHANGED <<roleTable, boot, store, dbVars, connVars>>

\* session.add(role); await session.commit(); await session.refresh(role)
SeedInsertRole(i) ==
    /\ tasks[i].pc = "insert_role"
    /\ IF tasks[i].role_key \in roleTable   \* unique key: the commit raises
       THEN /\ tasks' = [tasks EXCEPT ![i].pc = "done", ![i].kind = "raise"]
            /\ roleTable' = roleTable
       ELSE /\ tasks' = [tasks EXCEPT ![i].pc = "select_user", ![i].made.roles = 1]
            /\ roleTable' = roleTable \cup {tasks[i].role_key}
    /\ UNCHANGED <<boot, store, dbVars, connVars>>

\* user = await session.scalar(select(User).join(UserRoleLink)...); if not user
SeedSelectUser(i) ==
    /\ tasks[i].pc = "select_user"
    /\ LET user == first_user_with_role(users, links, tasks[i].role_key) IN
       tasks' = [tasks EXCEPT ![i] =
                    IF ~IsNone(user)
                    THEN [@ EXCEPT !.pc = "done", !.kind = "return", !.user = user]
                    ELSE [@ EXCEPT !.pc = "insert_user"]]
    /\ UNCHANGED <<roleTable, boot, store, dbVars, connVars>>

\* session.add(user); await session.commit(); await session.refresh(user); return user
SeedInsertUser(i) ==
    /\ tasks[i].pc = "insert_user"
    /\ LET role_key == tasks[i].role_key IN
       IF ~IsNone(users[role_key])   \* unique username: the commit raises
       THEN /\ tasks' = [tasks EXCEPT ![i].pc = "done", ![i].kind = "raise"]
            /\ UNCHANGED <<users, links>>
       ELSE /\ users' = [users EXCEPT ![role_key] = Some(UserRow(role_key, TRUE))]
            /\ links' = [links EXCEPT ![role_key] =
                            [NoLinks EXCEPT !.roles = seed_roles(role_key)]]
            /\ tasks' = [tasks EXCEPT ![i] =
                            [@ EXCEPT !.pc = "done", !.kind = "return",
                                      !.user = users'[role_key],
                                      !.made.users = 1, !.made.links = 1]]
    /\ UNCHANGED <<roleTable, boot, store, tokenTable, nextTok, adminOps, connVars>>

\* stores that hold neither the role nor the identity of any of the calls
InitSeedRace ==
    /\ tasks \in [1..MaxTasks -> {NewSeedTask(k) : k \in RoleKeys}]
    /\ users \in SeedUsers
    /\ roleTable \in SUBSET RoleKeys
    /\ links \in [Usernames -> {[NoLinks EXCEPT !.roles = held] : held \in SUBSET roleTable}]
    /\ \A u \in Usernames : IsNone(users[u]) => links[u] = NoLinks
    /\ \A i \in DOMAIN tasks :
          tasks[i].role_key \notin roleTable /\ IsNone(users[tasks[i].role_key])
    /\ boot = <<>>
    /\ store = NoStore
    /\ tokenTable = {}
    /\ nextTok = 1
    /\ adminOps = 0
    /\ jar = None
    /\ Idle

NextSeedRace ==
    \E i \in DOMAIN tasks :
       \/ SeedSelectRole(i)
       \/ SeedInsertRole(i)
       \/ SeedSelectUser(i)
       \/ SeedInsertUser(i)

SpecSeedRace == InitSeedRace /\ [][NextSeedRace]_vars

(***************************************************************************)
(* SpecDbStore: the database-backed token store used on its own, as the    *)
(* application's default store (Auth.__init__) is by its callers.          *)
(***************************************************************************)
\* the store's operation op on token ended with result and value
StoreOp(op, token, result, value) ==
    [op |-> op, token |-> token, result |-> result, value |-> value, at |-> store.now]

\* the token strings the store has generated, and one it never generates
DbInputs == {Tok(n) : n \in 1..(nextTok - 1)} \cup {Forged}

\* an application with its two identities and an empty token store
InitStore ==
    /\ users = BothUsers
    /\ links = InitLinks
    /\ tokenTable = {}
    /\ nextTok = 1
    /\ adminOps = 0
    /\ jar = None
    /\ NoAux
    /\ Idle

DbWrite ==
    /\ nextTok <= MaxTokens
    /\ \E u \in Usernames :
          LET token == Tok(nextTok) IN
          /\ tokenTable' = write_token(tokenTable, token, UserRow(u, TRUE))
          /\ store' = [store EXCEPT !.last =
                          StoreOp("write", token, "ok", Some(TokenData(UserRow(u, TRUE))))]
    /\ nextTok' = nextTok + 1
    /\ UNCHANGED <<tasks, roleTable, boot, users, links, adminOps, jar, request, scope, pc, frame, hist, resp>>

DbRead ==
    /\ \E token \in DbInputs :
          store' = [store EXCEPT !.last =
                       StoreOp("read", token, "ok", read_token(tokenTable, token))]
    /\ UNCHANGED <<tasks, roleTable, boot, dbVars, jar, request, scope, pc, frame, hist, resp>>

DbDestroy ==
    /\ \E token \in DbInputs :
          /\ tokenTable' = destroy_token(tokenTable, token)
          /\ store' = [store EXCEPT !.last = StoreOp("destroy", token, "ok", None),
                                    !.destroyed = @ \cup {token}]
    /\ UNCHANGED <<tasks, roleTable, boot, users, links, nextTok, adminOps, jar, request, scope, pc, frame, hist, resp>>

NextDbStore ==
    \/ DbWrite
    \/ DbRead
    \/ DbDestroy
    \/ ExpireToken

SpecDbStore == InitStore /\ [][NextDbStore]_vars

(***************************************************************************)
(* SpecJwtStore: the signed-stateless token store.  A token string is      *)
(* header.claims.signature; the claims hold the payload and the expiry.    *)
(***************************************************************************)
JwtLifetime == 2    \* expire_seconds, in ticks

\* the signature of the claims under the store's secret key
Sign(claims) == <<"HS256", claims.data.username, claims.exp>>

jwt_encode(data, exp) ==
    LET claims == [data |-> data, exp |-> exp] IN <<"HS256", claims, Sign(claims)>>

\* strings that are not three dot-separated parts
Malformed == {<<"garbage">>, <<"HS256", "garbage">>}

\* a token string read at time now: the payload, or None when the string is
\* malformed, its signature does not match, or it has expired
jwt_read_no_expiry(token, now) ==
    IF Len(token) # 3 THEN None
    ELSE IF token[3] # Sign(token[2]) THEN None
    ELSE Some(token[2].data)

jwt_read(token, now) ==
    IF Len(token) # 3 THEN None
    ELSE IF token[3] # Sign(token[2]) THEN None
    ELSE IF token[2].exp <= now THEN None
    ELSE Some(token[2].data)

\* destroy_token: NotImplementedError, whatever the token
jwt_destroy_not_found(token) == "not_found"

jwt_destroy(token) == "unsupported"

\* what a client may make of a token it holds without the secret key
Tampered(token) ==
    {<<token[1], [token[2] EXCEPT !.exp = @ + JwtLifetime], token[3]>>,
     <<token[1], token[2], <<"HS256", "forged", token[2].exp>>>>}
    \cup {<<token[1], [token[2] EXCEPT !.data.username = u], token[3]>> :
             u \in Usernames \ {token[2].data.username}}

JwtInputs == store.issued \cup UNION {Tampered(t) : t \in store.issued} \cup Malformed

JwtWrite ==
    /\ Cardinality(store.issued) < MaxJwt
    /\ \E u \in Usernames :
          LET data == TokenData(UserRow(u, TRUE))
              token == jwt_encode(data, store.now + JwtLifetime)
          IN store' = [store EXCEPT !.issued = @ \cup {token},
                                    !.last = StoreOp("write", token, "ok", Some(data))]
    /\ UNCHANGED <<tasks, roleTable, boot, dbVars, jar, request, scope, pc, frame, hist, resp>>

JwtRead ==
    /\ \E token \in JwtInputs :
          store' = [store EXCEPT !.last =
                       StoreOp("read", token, "ok", jwt_read(token, store.now))]
    /\ UNCHANGED <<tasks, roleTable, boot, dbVars, jar, request, scope, pc, frame, hist, resp>>

JwtDestroy ==
    /\ \E token \in JwtInputs :
          store' = [store EXCEPT !.last = StoreOp("destroy", token, jwt_destroy(token), None),
                                 !.destroyed = @ \cup ({token} \cap store.issued)]
    /\ UNCHANGED <<tasks, roleTable, boot, dbVars, jar, request, scope, pc, frame, hist, resp>>

\* time passes
JwtTick ==
    /\ store.now < MaxClock
    /\ store' = [store EXCEPT !.now = @ + 1]
    /\ UNCHANGED <<tasks, roleTable, boot, dbVars, jar, request, scope, pc, frame, hist, resp>>

NextJwtStore ==
    \/ JwtWrite
    \/ JwtRead
    \/ JwtDestroy
    \/ JwtTick

SpecJwtStore == InitStore /\ [][NextJwtStore]_vars

(***************************************************************************)
(* SpecResolve: guarded routes called with tokens issued earlier, while    *)
(* memberships are granted and revoked and tokens expire or are destroyed. *)
(***************************************************************************)
ResolveRoutes == {UserinfoRoute, PageRoute, AdminRolesRoute, VipSocketRoute}
ResolveHeaders ==
    IssuedHeaders \cup {Some(BearerHeader(Forged)), Some(<<"Basic", SP>> \o Tok(1)), Some(<<"Bearer">>)}

\* vip was given the permission test before the tokens were issued
ResolveLinks == [InitLinks EXCEPT !["vip"].permissions = {"test"}]

InitResolve ==
    /\ users = BothUsers
    /\ links = ResolveLinks
    /\ tokenTable = IssuedTokens
    /\ nextTok = 3
    /\ adminOps = 0
    /\ jar = None
    /\ NoAux
    /\ Idle

NewRequestResolve == NewRequestFrom(ResolveRoutes, ResolveHeaders)

NextResolve ==
    \/ NewRequestResolve
    \/ Dispatch
    \/ AuthEnter
    \/ AuthRead
    \/ AuthUser
    \/ Guard
    \/ Grant
    \/ Revoke
    \/ SetActiveCounted
    \/ DeleteUser
    \/ ExpireToken
    \/ DestroyTokenIn({Tok(1), Tok(2), Forged})

SpecResolve == InitResolve /\ [][NextResolve]_vars

(***************************************************************************)
(* SpecRequires: one connection to a route guarded by requires(...), for   *)
(* every form of the requirement over every membership of the caller, and  *)
(* for every on-failure policy in every kind of use.                       *)
(***************************************************************************)
InitRequires ==
    /\ users = BothUsers
    /\ tokenTable = IssuedTokens
    /\ nextTok = 3
    /\ adminOps = 0
    /\ jar = None
    /\ NoAux
    /\ \E header \in IssuedHeaders :
          \/ /\ links \in AllLinks
             /\ \E route \in RequirementRoutes :
                   ConnInit([route |-> route, header |-> header, cookie |-> None,
                             form |-> EmptyForm])
          \/ /\ links = InitLinks
             /\ \E route \in PolicyRoutes :
                   ConnInit([route |-> route, header |-> header, cookie |-> None,
                             form |-> EmptyForm])

NextRequires ==
    \/ Dispatch
    \/ AuthEnter
    \/ AuthRead
    \/ AuthUser
    \/ Guard

SpecRequires == InitRequires /\ [][NextRequires]_vars

(***************************************************************************)
(* SpecHeader: one connection to /userinfo, for every Authorization header *)
(* and cookie a client may send.                                           *)
(***************************************************************************)
Credentials ==
    {None, Some(<<>>), Some(<<"Bearer">>), Some(<<"Bearer", SP>>),
     Some(<<"Bearer", SP, "t1">>), Some(<<"bearer", SP, "t2">>), Some(<<"BEARER", SP, "t1">>),
     Some(<<"Basic", SP, "t1">>), Some(<<"t1">>), Some(<<SP, "t1">>),
     Some(<<"Bearer", SP, SP, "t1">>), Some(<<"Bearer", SP, "t1", SP, "t2">>)}

InitHeader ==
    /\ users = BothUsers
    /\ links = InitLinks
    /\ tokenTable = IssuedTokens
    /\ nextTok = 3
    /\ adminOps = 0
    /\ jar = None
    /\ NoAux
    /\ \E header \in Credentials, cookie \in Credentials :
          ConnInit([route |-> UserinfoRoute, header |-> header, cookie |-> cookie,
                    form |-> EmptyForm])

SpecHeader == InitHeader /\ [][NextRequires]_vars

(***************************************************************************)
(* SpecGather: authenticate called by several coroutines on one            *)
(* connection (guards gathered by a handler).  The event loop runs a       *)
(* coroutine from one await to the next and then picks any coroutine that  *)
(* is ready, so each action below is the code between two awaits.          *)
(***************************************************************************)
\* a call of authenticate that has not started
NewAuthTask == [pc |-> "start", token |-> None, token_data |-> None, ret |-> None]

\* the call returns value
TaskReturn(task, value) == [task EXCEPT !.pc = "done", !.ret = Some(value)]

\* lines 47-53: up to await self.token_store.read_token(token)
TaskEnter(i) ==
    /\ tasks[i].pc = "start"
    /\ IF ~IsNone(scope.auth)
       THEN /\ tasks' = [tasks EXCEPT ![i] = TaskReturn(@, <<scope.auth, scope.user>>)]
            /\ scope' = scope
       ELSE LET token == get_user_token(request) IN
            /\ scope' = [auth |-> TheAuth, user |-> None]
            /\ tasks' = [tasks EXCEPT ![i] =
                            IF ~TruthyStr(token) THEN TaskReturn(@, <<TheAuth, None>>)
                            ELSE [@ EXCEPT !.pc = "read", !.token = token]]
    /\ UNCHANGED <<roleTable, boot, store, dbVars, jar, request, pc, frame, hist, resp>>

\* lines 53-55: read_token completes, up to await get_user_by_username(...)
TaskRead(i) ==
    /\ tasks[i].pc = "read"
    /\ LET token_data == read_token(tokenTable, The(tasks[i].token)) IN
       tasks' = [tasks EXCEPT ![i] =
                    IF IsNone(token_data) THEN TaskReturn(@, <<scope.auth, scope.user>>)
                    ELSE [@ EXCEPT !.pc = "user", !.token_data = token_data]]
    /\ UNCHANGED <<roleTable, boot, store, dbVars, jar, request, scope, pc, frame, hist, resp>>

\* lines 55-56: get_user_by_username completes, the scope is written, the call returns
TaskUser(i) ==
    /\ tasks[i].pc = "user"
    /\ scope' = [scope EXCEPT !.user = resolve_identity(users, The(tasks[i].token_data))]
    /\ tasks' = [tasks EXCEPT ![i] = TaskReturn(@, <<scope'.auth, scope'.user>>)]
    /\ UNCHANGED <<roleTable, boot, store, dbVars, jar, request, pc, frame, hist, resp>>

InitGather ==
    /\ users \in InitUsers
    /\ links = InitLinks
    /\ tokenTable = IssuedTokens
    /\ nextTok = 3
    /\ adminOps = 0
    /\ jar = None
    /\ roleTable = RoleKeys
    /\ boot = <<>>
    /\ store = NoStore
    /\ tasks = [i \in 1..MaxTasks |-> NewAuthTask]
    /\ \E header \in ResolveHeaders, cookie \in {None, Some(BearerCookie(Tok(1)))} :
          request = [route |-> UserinfoRoute, header |-> header, cookie |-> cookie,
                     form |-> EmptyForm]
    /\ scope = EmptyScope
    /\ pc = "gather"
    /\ frame = EmptyFrame
    /\ hist = EmptyHist
    /\ resp = NoResp

NextGather ==
    \E i \in DOMAIN tasks :
       \/ TaskEnter(i)
       \/ TaskRead(i)
       \/ TaskUser(i)

SpecGather == InitGather /\ [][NextGather]_vars

(***************************************************************************)
(* Properties                                                              *)
(***************************************************************************)
\* the keys a requirement argument asks for; None, "" and [] ask for none
ReqKeys(arg) ==
    IF arg.t = "none" THEN {}
    ELSE IF arg.t = "str" THEN {arg.v[1]} \ {""}
    ELSE Range(arg.v)

AnyOf(held, asked) == asked = {} \/ held \cap asked # {}

\* the decision the requirement calls for, on memberships lk
Decision(lk, user, route) ==
    /\ ~IsNone(user)
    /\ AnyOf(lk[The(user).username].roles, ReqKeys(route.roles))
    /\ AnyOf(lk[The(user).username].groups, ReqKeys(route.groups))
    /\ AnyOf(lk[The(user).username].permissions, ReqKeys(route.permissions))

Guarded == pc = "done" /\ ~IsNone(resp.guard)

\* C1: has_requires returns true iff an identity is resolved and, in each of the
\* three dimensions, the requirement is empty or the identity holds one of its keys.
C1_GuardIsAnyOfPerDimension ==
    Guarded => The(resp.guard) = Decision(links, scope.user, request.route)

\* an identity holding only the role vip passes roles=['admin','vip'] with groups='admin'
C1_Witness ==
    /\ Guarded
    /\ request.route.roles = List(<<"admin", "vip">>)
    /\ request.route.groups = Str("admin")
    /\ request.route.permissions = List(<<"test", "other">>)
    /\ ~IsNone(scope.user)
    /\ links[The(scope.user).username].roles = {"vip"}
    /\ The(resp.guard)

\* the connection carries a token whose record is live and whose identity exists
CarriesLiveToken ==
    \E r \in tokenTable :
        /\ ~r.expired
        /\ request.header = Some(BearerHeader(r.token))
        /\ ~IsNone(users[r.data.username])

NoRequirement(route) ==
    ReqKeys(route.roles) = {} /\ ReqKeys(route.groups) = {} /\ ReqKeys(route.permissions) = {}

\* C2: with roles, groups and permissions all empty the guard passes for every
\* connection with a resolved identity, whatever the identity holds, and fails
\* for every connection with no resolved identity.
C2_EmptyRequirementAdmitsAnyIdentity ==
    (Guarded /\ NoRequirement(request.route)) =>
        The(resp.guard) = ~IsNone(scope.user)

\* an identity with no role, group or permission passes requires()
C2_Witness ==
    /\ Guarded
    /\ CarriesLiveToken
    /\ request.route.roles = NoneArg
    /\ request.route.groups = NoneArg
    /\ request.route.permissions = NoneArg
    /\ ~IsNone(scope.user)
    /\ links[The(scope.user).username] = NoLinks
    /\ The(resp.guard)
    /\ resp.ran

\* C3: a handler wrapped by requires(...) as a sync, async or websocket decorator
\* executes its body only when the guard predicate evaluated to true, for every
\* on-failure policy.
C3_HandlerRunsOnlyWhenGuardPasses ==
    (Guarded /\ request.route.kind \in WrapperKinds /\ resp.ran) => The(resp.guard)

C5_ResolutionIsIdempotent ==
    hist.rets # <<>> =>
        /\ \A i \in DOMAIN hist.rets : hist.rets[i] = hist.rets[1]
        /\ hist.reads = hist.first

\* a second call returns the identity of a token that was destroyed or expired
\* after the first call resolved it
C5_Witness ==
    /\ Len(hist.rets) = 2
    /\ ~IsNone(hist.rets[2][2])
    /\ hist.reads = [token |-> 1, user |-> 1]
    /\ IsNone(read_token(tokenTable, The(frame.token)))

\* the step that ends the connection's flow at position p
Leaves(p) == pc = p /\ pc' # p

\* C6: the identity a token payload resolves to is the record stored under the
\* payload's username when the connection is served, absent if there is none; and
\* the guard decides on the memberships the identity holds at that time, so a
\* grant or a revocation made after the token was issued changes the decision for
\* the same token.
C6_Step ==
    /\ Leaves("auth_user") =>
          scope'.user = users[The(frame.token_data).username]
    /\ Leaves("guard") =>
          resp'.guard = Some(Decision(links, scope.user, request.route))

C6_LiveIdentityDecides == [][C6_Step]_vars

\* vip, whose token was issued while vip held no admin role, passes requires('admin')
C6_Witness ==
    /\ Guarded
    /\ request.route = AdminRolesRoute
    /\ request.header = Some(BearerHeader(Tok(2)))
    /\ ~Decision(ResolveLinks, scope.user, request.route)
    /\ The(resp.guard)
    /\ resp.ran

\* the Authorization value the connection is judged by
Credential(req) == IF ~IsNone(req.header) /\ The(req.header) # <<>> THEN req.header ELSE req.cookie

BearerSchemes == {"bearer", "Bearer", "BEARER"}

\* the bearer token the value v carries: None unless v is a bearer scheme, then
\* nothing or a space and the token
BearerToken(v) ==
    IF IsNone(v) \/ The(v) = <<>> THEN None
    ELSE IF The(v)[1] \notin BearerSchemes THEN None
    ELSE IF Len(The(v)) >= 2 /\ The(v)[2] # SP THEN None
    ELSE Some(SubSeq(The(v), 3, Len(The(v))))

\* no token, or an empty one
NoToken(req) == IsNone(BearerToken(Credential(req))) \/ The(BearerToken(Credential(req))) = <<>>

\* token has a record in the table that has not expired
LiveToken(table, token) == \E r \in table : r.token = token /\ ~r.expired

AbsentResult == <<TheAuth, None>>

\* the call ends in this step with (authenticator, absent), stored in the scope
EndsAbsent ==
    /\ pc' = frame.ret
    /\ hist'.rets = Append(hist.rets, AbsentResult)
    /\ scope' = [auth |-> TheAuth, user |-> None]

\* C7: authenticate does not raise because of the token: with no token, an empty
\* or malformed one it ends with (authenticator, absent) in the scope as soon as
\* the token is extracted, and with a tampered, expired, destroyed or never-issued
\* one as soon as the token store has been read.
C7_Step ==
    /\ (Leaves("auth_enter") /\ IsNone(scope.auth) /\ NoToken(request)) => EndsAbsent
    /\ (Leaves("auth_read") /\ ~LiveToken(tokenTable, The(frame.token))) => EndsAbsent

C7_BadTokenDegradesToAbsent == [][C7_Step]_vars

\* a connection whose token had expired ran its handler stage with no identity
C7_Witness ==
    /\ pc = "done"
    /\ request.header = Some(BearerHeader(Tok(1)))
    /\ \E r \in tokenTable : r.token = Tok(1) /\ r.expired
    /\ hist.reads = [token |-> 1, user |-> 0]
    /\ hist.rets[1] = AbsentResult
    /\ scope = [auth |-> TheAuth, user |-> None]
    /\ resp.guard = Some(FALSE)

\* the connection's token has been extracted
Extracted == ~IsNone(scope.auth)

\* C8: get_user_token takes the token from the Authorization header when the header
\* is present and not empty and from the cookie otherwise; it returns the token
\* part when the scheme is 'bearer' in any case and None otherwise, so the cookie
\* 'bearer <token>' is read back as <token>.
C8_HeaderBeforeCookie ==
    Extracted =>
        /\ (~IsNone(request.header) /\ The(request.header) # <<>>) =>
              frame.token = BearerToken(request.header)
        /\ (IsNone(request.header) \/ request.header = Some(<<>>)) =>
              frame.token = BearerToken(request.cookie)
        /\ \A t \in TokenStrings :
              (request.cookie = Some(BearerCookie(t))
                  /\ (IsNone(request.header) \/ request.header = Some(<<>>))) =>
              frame.token = Some(t)

\* a header that is not a bearer one hides a good cookie
C8_Witness ==
    /\ Extracted
    /\ request.header = Some(<<"Basic", SP, "t1">>)
    /\ request.cookie = Some(BearerCookie(Tok(2)))
    /\ IsNone(frame.token)
    /\ pc = "done"
    /\ IsNone(scope.user)

\* an identity is stored under the form's username and the form's password
\* verifies against its hash
Verifies(tbl, form) ==
    /\ form.username \in DOMAIN tbl
    /\ ~IsNone(tbl[form.username])
    /\ pwd_verify(form.password, The(tbl[form.username]).password)

\* authenticate_user has been called on this connection's form
Called == frame.verified.kind # "none"

\* C9: authenticate_user(username, password) returns, it does not raise; what it
\* returns is the identity iff an identity with that username exists and the
\* password verifies against its hash, and absent in both failure cases.
C9_AuthenticateUserReturns ==
    Called =>
        /\ frame.verified.kind = "return"
        /\ ~IsNone(frame.verified.user) <=> Verifies(users, request.form)

\* a step of the login handler that calls authenticate_user
LoginCalls == Leaves("login") /\ IsNone(scope.user)

\* C10: a login request with no resolved identity and the correct password of an
\* active identity is answered with status 0, code 0 and an access_token written
\* to the token store for that identity in this request, and with the cookie
\* Authorization = 'bearer ' + access_token; a later request that carries this
\* cookie and no header resolves, while the token is in the store, to the identity
\* stored under the username that logged in.
C10_Step ==
    /\ (LoginCalls /\ Verifies(users, request.form)
                   /\ The(users[request.form.username]).is_active) =>
          /\ pc' = "login_issue"
          /\ resp'.kind = "none"
    /\ Leaves("login_issue") =>
          /\ resp'.kind = "envelope" /\ resp'.status = 0 /\ resp'.code = Some(0)
          /\ ~IsNone(resp'.access_token)
          /\ \A r \in tokenTable : r.token # The(resp'.access_token)
          /\ \E r \in tokenTable' :
                /\ r.token = The(resp'.access_token)
                /\ ~r.expired
                /\ r.data.username = request.form.username
          /\ resp'.set_cookie = Some(<<"bearer", SP>> \o The(resp'.access_token))
          /\ jar' = resp'.set_cookie
    /\ \A r \in tokenTable :
          (/\ IsNone(request.header)
           /\ request.cookie = Some(<<"bearer", SP>> \o r.token)
           /\ ~r.expired) =>
             /\ (Leaves("auth_enter") /\ IsNone(scope.auth)) =>
                   pc' = "auth_read" /\ frame'.token = Some(r.token)
             /\ Leaves("auth_read") =>
                   pc' = "auth_user" /\ frame'.token_data = Some(r.data)
             /\ Leaves("auth_user") =>
                   /\ scope'.user = users[r.data.username]
                   /\ ~IsNone(scope'.user)

C10_LoginIssuesUsableCookie == [][C10_Step]_vars

\* vip logged in, and the next request, carrying only the cookie, got vip's record
C10_Witness ==
    /\ pc = "done"
    /\ request.route = UserinfoRoute
    /\ IsNone(request.header)
    /\ request.cookie = Some(BearerCookie(Tok(1)))
    /\ jar = request.cookie
    /\ \E r \in tokenTable : r.token = Tok(1) /\ r.data.username = "vip"
    /\ resp.ran
    /\ resp.data = users["vip"]
    /\ ~IsNone(resp.data)

\* the response writes no token and sets no cookie
NothingIssued ==
    /\ tokenTable' = tokenTable
    /\ nextTok' = nextTok
    /\ IsNone(resp'.access_token)
    /\ IsNone(resp'.set_cookie)
    /\ jar' = jar

\* the request ends in this step with the envelope status and no data
EndsWithStatus(status) ==
    /\ pc' = "done"
    /\ resp'.kind = "envelope"
    /\ resp'.status = status
    /\ IsNone(resp'.data)

\* C11: a login request whose credentials do not verify is answered with the
\* envelope status -1 and data null, not with a transport-level error; no token
\* is written and no Authorization cookie is set.
C11_Step == (LoginCalls /\ ~Verifies(users, request.form)) => (EndsWithStatus(-1) /\ NothingIssued)

C11_BadCredentialsReported == [][C11_Step]_vars

\* the form carries the correct password of an identity that is not active
InactiveVerifies ==
    /\ Verifies(users, request.form)
    /\ ~The(users[request.form.username]).is_active

\* C12 as stated: every login request with the correct password of an inactive
\* identity is answered with status -2, writes no token and sets no cookie.
C12_Step_AnyRequest == (Leaves("login") /\ InactiveVerifies) => (EndsWithStatus(-2) /\ NothingIssued)

C12_InactiveRejected_AnyRequest == [][C12_Step_AnyRequest]_vars

\* C12: a login request that carries no resolved identity and supplies the correct
\* password of an identity whose active flag is false is answered with status -2,
\* writes no token and sets no cookie.
C12_Step == (LoginCalls /\ InactiveVerifies) => (EndsWithStatus(-2) /\ NothingIssued)

C12_InactiveRejected == [][C12_Step]_vars

\* vip, disabled, was refused with the right password
C12_Witness ==
    /\ pc = "done"
    /\ request.route = LoginRoute
    /\ request.form = [username |-> "vip", password |-> "vip"]
    /\ IsNone(scope.user)
    /\ ~IsNone(users["vip"])
    /\ ~The(users["vip"]).is_active
    /\ resp.kind = "envelope" /\ resp.status = -2
    /\ tokenTable = {}
    /\ IsNone(jar)

\* C13: the token endpoint writes and returns a token only when the submitted
\* username and password verify, and the token then belongs to the identity with
\* the submitted username; when they do not verify the response has status -1 and
\* data null, no token is written and no cookie is set.
C13_Step ==
    /\ (Leaves("gettoken") /\ Verifies(users, request.form)) =>
          pc' = "token_issue" /\ NothingIssued
    /\ (Leaves("gettoken") /\ ~Verifies(users, request.form)) =>
          EndsWithStatus(-1) /\ NothingIssued
    /\ Leaves("token_issue") =>
          /\ ~IsNone(resp'.access_token)
          /\ \E r \in tokenTable' \ tokenTable :
                /\ r.token = The(resp'.access_token)
                /\ r.data.username = request.form.username

C13_TokenOnlyForVerifiedCredentials == [][C13_Step]_vars

\* the username, the email of the registration form is in use
UsernameInUse == ~IsNone(get_user_by_username(users, request.form.username))
EmailInUse == \E u \in Usernames : ~IsNone(users[u]) /\ The(users[u]).email = request.form.email

\* C14: registration with a username in use is answered with status -1, also when
\* the email is in use as well; with a free username and an email in use, with
\* status -2; in both cases no identity is created, no token written, no cookie set.
C14_Step ==
    /\ (Leaves("reg") /\ UsernameInUse) => EndsWithStatus(-1)
    /\ (Leaves("reg") /\ ~UsernameInUse /\ EmailInUse) => EndsWithStatus(-2)
    /\ (Leaves("reg") /\ (UsernameInUse \/ EmailInUse)) =>
          (users' = users /\ links' = links /\ NothingIssued)

C14_RegistrationRejectsDuplicates == [][C14_Step]_vars

\* admin's username with admin's email was refused with -1, nothing created
C14_Witness ==
    /\ pc = "done"
    /\ request.route = RegRoute
    /\ request.form.username = "admin"
    /\ request.form.email = <<"admin", "@amis.work">>
    /\ resp.kind = "envelope" /\ resp.status = -1
    /\ IsNone(users["vip"])
    /\ tokenTable = {}
    /\ IsNone(jar)

\* the identity table gained exactly the row of the form, its password hashed
StoredOne ==
    /\ IsNone(users[request.form.username])
    /\ \A u \in Usernames \ {request.form.username} : users'[u] = users[u]
    /\ users'[request.form.username] =
          Some([username |-> request.form.username,
                password |-> pwd_hash(request.form.password),
                email |-> request.form.email, is_active |-> TRUE])

\* C15: registration with a free username and a free email, once the insert has
\* stored the row, has persisted exactly one new identity whose password is the
\* hash of the submitted one; it is answered with status 0, code 0 and an access
\* token written for the new identity, and the cookie 'bearer ' + token; a later
\* request carrying that cookie resolves to the registered identity.
C15_Step ==
    /\ (Leaves("reg") /\ ~UsernameInUse /\ ~EmailInUse) =>
          (pc' = "reg_insert" /\ users' = users /\ NothingIssued)
    /\ (Leaves("reg_insert") /\ frame'.inserted = "committed") =>
          (StoredOne /\ pc' = "reg_issue" /\ resp'.kind = "none")
    /\ (Leaves("reg_issue") /\ frame.inserted = "committed") =>
          /\ resp'.kind = "envelope" /\ resp'.status = 0 /\ resp'.code = Some(0)
          /\ ~IsNone(resp'.access_token)
          /\ \A r \in tokenTable : r.token # The(resp'.access_token)
          /\ \E r \in tokenTable' :
                /\ r.token = The(resp'.access_token)
                /\ ~r.expired
                /\ r.data.username = request.form.username
          /\ resp'.set_cookie = Some(<<"bearer", SP>> \o The(resp'.access_token))
          /\ jar' = resp'.set_cookie
          /\ users' = users
          /\ ~IsNone(users[request.form.username])
    /\ (Leaves("auth_user") /\ IsNone(request.header) /\ request.cookie = jar) =>
          /\ scope'.user = users[The(frame.token_data).username]
          /\ \E r \in tokenTable :
                /\ jar = Some(<<"bearer", SP>> \o r.token)
                /\ r.data = The(frame.token_data)

C15_RegistrationCreatesAndLogsIn == [][C15_Step]_vars

\* vip registered with the password admin and then fetched /userinfo with the cookie
C15_Witness ==
    /\ pc = "done"
    /\ request.route = UserinfoRoute
    /\ request.cookie = Some(BearerCookie(Tok(1)))
    /\ resp.ran
    /\ ~IsNone(resp.data)
    /\ The(resp.data).username = "vip"
    /\ The(resp.data).password = pwd_hash("admin")
    /\ users["vip"] = resp.data

\* C16: registration never ends in a partial state: when the persistence step does
\* not store the new identity (the insert raises, or affects no row and nothing is
\* committed) the request ends with a server error, with no token, no success
\* envelope and no cookie; a success response with a token implies the identity
\* was committed.
C16_Step ==
    /\ (Leaves("reg_insert") /\ users' = users) =>
          (pc' = "done" /\ resp'.kind = "server_error" /\ NothingIssued)
    /\ Leaves("reg_issue") =>
          users[request.form.username] = frame.user

C16_NoPartialRegistration == [][C16_Step]_vars

\* C17: create_role_user is idempotent under sequential repetition: after a first
\* completed call, every further call with the same role_key completes, creates
\* no role row, no identity row and no association row, and returns the identity
\* the first call returned.
C17_SeedingIsIdempotent ==
    \A i, j \in DOMAIN boot :
        (i < j /\ boot[i].kind = "return" /\ boot[j].role_key = boot[i].role_key) =>
            /\ boot[j].kind = "return"
            /\ boot[j].made = NoneMade
            /\ boot[j].user = boot[i].user

\* the first call created the role, the identity and their association; the third
\* call, after one for another role, found them
C17_Witness ==
    /\ Len(boot) = 3
    /\ boot[1].made = [roles |-> 1, users |-> 1, links |-> 1]
    /\ boot[2].role_key # boot[1].role_key
    /\ boot[3].role_key = boot[1].role_key
    /\ boot[3].made = NoneMade
    /\ boot[3].user = boot[1].user
    /\ ~IsNone(boot[3].user)

\* the store's operation op was made in this step
Did(op) == store'.last.op = op /\ store' # store

\* token's record in the table, if any
RowsOf(table, token) == {r \in table : r.token = token}

\* C18: for the database-backed store, reading a token just written returns the
\* payload written; after destroy_token(t), t has no record and reads as absent
\* in every later state; destroy_token on a never-issued or already-destroyed
\* token succeeds and changes no other token's record.
C18_Step ==
    /\ Did("write") =>
          /\ store'.last.result = "ok"
          /\ read_token(tokenTable', store'.last.token) = store'.last.value
          /\ ~IsNone(store'.last.value)
          /\ RowsOf(tokenTable, store'.last.token) = {}
    /\ Did("read") =>
          /\ store'.last.result = "ok"
          /\ store'.last.token \in store.destroyed => IsNone(store'.last.value)
          /\ \A r \in tokenTable :
                (r.token = store'.last.token /\ ~r.expired) => store'.last.value = Some(r.data)
    /\ Did("destroy") =>
          /\ store'.last.result = "ok"
          /\ \A r \in tokenTable : r.token # store'.last.token => r \in tokenTable'
          /\ tokenTable' \subseteq tokenTable
    /\ \A t \in store'.destroyed :
          RowsOf(tokenTable', t) = {} /\ IsNone(read_token(tokenTable', t))

C18_DbStoreRoundTrip == [][C18_Step]_vars

\* t1 was written, destroyed, destroyed again while t2 stayed, and then read as absent
C18_Witness ==
    /\ store.last = [op |-> "read", token |-> Tok(1), result |-> "ok", value |-> None, at |-> 0]
    /\ Tok(1) \in store.destroyed
    /\ Forged \in store.destroyed
    /\ nextTok = 3
    /\ \E r \in tokenTable : r.token = Tok(2) /\ ~r.expired

\* C19: for the signed-stateless store, reading a token the store wrote returns
\* the payload written while the token is unexpired, and reading a tampered,
\* malformed or expired token string returns absent, without raising.
C19_JwtStoreRoundTrip ==
    /\ store.last.op = "write" =>
          /\ store.last.token \in store.issued
          /\ jwt_read(store.last.token, store.last.at) = store.last.value
          /\ ~IsNone(store.last.value)
    /\ store.last.op = "read" =>
          /\ store.last.result = "ok"
          /\ IF store.last.token \in store.issued /\ store.last.token[2].exp > store.last.at
             THEN store.last.value = Some(store.last.token[2].data)
             ELSE IsNone(store.last.value)

\* a token whose expiry a client pushed back was read as absent after the
\* original expired
C19_Witness ==
    /\ store.last.op = "read"
    /\ store.last.token \notin store.issued
    /\ Len(store.last.token) = 3
    /\ store.last.token[3] = Sign([store.last.token[2] EXCEPT !.exp = @ - JwtLifetime])
    /\ store.last.token[2].exp > store.last.at
    /\ store.last.at >= JwtLifetime
    /\ IsNone(store.last.value)

\* C20: on the signed-stateless store destroy_token fails with the unsupported-
\* operation failure for every token string, issued or not, never with not-found
\* or success, and a token destroy_token was called on is still read back with its
\* payload until it expires.
C20_JwtDestroyUnsupported ==
    /\ store.last.op = "destroy" => store.last.result = "unsupported"
    /\ \A t \in store.destroyed \cap store.issued :
          /\ t[2].exp > store.now => jwt_read(t, store.now) = Some(t[2].data)
          /\ (store.last.op = "read" /\ store.last.token = t /\ t[2].exp > store.last.at) =>
                store.last.value = Some(t[2].data)

\* an issued token was read with its payload after destroy_token had failed on it
C20_Witness ==
    /\ store.last.op = "read"
    /\ store.last.token \in store.destroyed \cap store.issued
    /\ ~IsNone(store.last.value)
    /\ store.last.at > 0

\* C21: the response to a failed guard is the response the same route, under the
\* same on-failure policy, gives a caller that sends no token: it is the same for
\* a caller with no token, with an invalid or expired token, and with a valid token
\* whose identity fails the requirement.
C21_RejectionIndependentOfToken ==
    (Guarded /\ ~The(resp.guard)) =>
        resp = GuardResponse(NoResp, links, None, request.route)

\* C22: for a websocket handler wrapped by requires(...), a failed guard closes the
\* connection, produces no HTTP response and does not invoke the handler, whatever
\* the on-failure policy; a passed guard invokes the handler, once, and does not
\* close the connection.
C22_WebsocketClosedOnFailure ==
    request.route.kind = "websocket" =>
        /\ pc # "done" => (~resp.ran /\ resp.kind = "none")
        /\ (Guarded /\ ~The(resp.guard)) =>
              /\ resp.kind = "closed"
              /\ ~resp.ran
              /\ resp.outcome.kind = "none"
              /\ IsNone(resp.code) /\ resp.val = "" /\ IsNone(resp.data)
        /\ (Guarded /\ The(resp.guard)) =>
              /\ resp.kind = "handler"
              /\ resp.ran

\* a websocket whose guard failed was closed although the route configures a
\* redirect and the substitute response True
C22_Witness ==
    /\ Guarded
    /\ request.route.kind = "websocket"
    /\ request.route.redirect = Some("login")
    /\ request.route.response = Some("True")
    /\ request.header = Some(BearerHeader(Tok(2)))
    /\ resp.guard = Some(FALSE)
    /\ resp.kind = "closed"

\* the identity the connection's token resolves to: the record stored under the
\* username of the token's payload, None when the connection carries no live token
ResolvesTo ==
    LET token == get_user_token(request) IN
    IF TruthyStr(token) /\ LiveToken(tokenTable, The(token))
    THEN users[The(read_token(tokenTable, The(token))).username]
    ELSE None

\* C23: on a connection that carries a valid token, every authenticate call, in
\* every interleaving with another call on the connection (a call may start while
\* another is suspended in a store read), returns the identity the token resolves
\* to; no call returns an absent identity written provisionally to the scope.
C23_ConcurrentCallsResolve ==
    ~IsNone(ResolvesTo) =>
        \A i \in DOMAIN tasks :
            tasks[i].pc = "done" => tasks[i].ret = Some(<<TheAuth, ResolvesTo>>)

\* every call has returned or raised
AllDone == \A i \in DOMAIN tasks : tasks[i].pc = "done"

\* the number of calls that added a row of the kind
Added(kind) == Cardinality({i \in DOMAIN tasks : tasks[i].made[kind] = 1})

\* C24: when concurrent create_role_user calls with one role_key, started on a
\* store with neither the role nor the identity, have all ended, in whatever
\* interleaving, one role row and one identity row were added, the identity is
\* stored under the username role_key with the role, and every call returned it.
C24_ConcurrentSeedingCoordinated ==
    (AllDone /\ \A i \in DOMAIN tasks : tasks[i].role_key = tasks[1].role_key) =>
        LET role_key == tasks[1].role_key IN
        /\ role_key \in roleTable /\ Added("roles") = 1
        /\ ~IsNone(users[role_key]) /\ Added("users") = 1
        /\ role_key \in links[role_key].roles
        /\ \A i \in DOMAIN tasks :
              tasks[i].kind = "return" /\ tasks[i].user = users[role_key]

\* C25: from every store state, a create_role_user(role_key) call returns, and
\* after it the role role_key has its row, an identity is stored under the username
\* role_key and holds the role, and that identity is what the call returned; the
\* call does not try to add an identity under a username that is taken.
C25_SeedingEnsuresRoleIdentity ==
    \A n \in DOMAIN boot :
        /\ boot[n].kind = "return"
        /\ boot[n].role_key \in roleTable
        /\ ~IsNone(users[boot[n].role_key])
        /\ boot[n].role_key \in links[boot[n].role_key].roles
        /\ boot[n].user = users[boot[n].role_key]

\* the resolver has completed for the request being served
Resolved == hist.rets # <<>>

\* C26: once the resolver has completed for a request, no later step of that
\* request (guard, login handler, token endpoint, user-info handler) changes the
\* authenticator and identity-or-absent value held in the connection scope; and a
\* new request starts with a scope of its own that holds nothing of the last one.
C26_Step ==
    /\ (Resolved /\ hist'.rets # <<>>) => scope' = scope
    /\ (pc \in {"idle", "done"} /\ pc' \notin {"idle", "done"}) => scope' = EmptyScope

C26_ContextWrittenOnce == [][C26_Step]_vars

\* the token strings that have a row in the table
TokensOf(table) == {r.token : r \in table}

\* the identity record the request being served issues a token for: the one
\* authenticate_user returned to the login handler, or the scope's on /gettoken
Issuer == IF pc = "login_issue" THEN frame.user ELSE scope.user

\* C27: whenever a login or token-endpoint request writes an access token to the
\* token store, the identity it is written for has its active flag set in the
\* record the request obtained: no token is issued to a disabled account.
C27_Step ==
    TokensOf(tokenTable') \ TokensOf(tokenTable) # {} =>
        /\ ~IsNone(Issuer)
        /\ The(Issuer).is_active

C27_NoTokenForDisabledAccount == [][C27_Step]_vars

====
